---------------------------- MODULE Spec2Model ----------------------------
(***************************************************************************)
(* A model of python/puppetry/examples/head_nod.py: the simple harmonic   *)
(* oscillator Sho, the per-frame pose computation computeData, and the    *)
(* two cooperative loops (puppetry_coroutine and the module's wait loop). *)
(*                                                                         *)
(* Numbers.  Python floats are modelled by integers on fixed grids on     *)
(* which the arithmetic of the script is exact:                           *)
(*   time       1 tick = 0.05 s   (update_period 0.1 s = 2 ticks,          *)
(*                                 pulse_period 16 s = 320 ticks)          *)
(*   frequency  1 unit = 1/FreqOne cycles per tick                         *)
(*   angle      1 unit = 2*pi/TwoPi radians (TwoPi units in one turn)     *)
(*   sine       1 unit = 1/SinOne                                          *)
(*   amplitude  1 unit = 0.001 rad                                         *)
(***************************************************************************)
EXTENDS Integers, Sequences, FiniteSets, TLC

VARIABLES
    frequency, phase, raised, osc,   \* one Sho(frequency, phase) and what its constructor raised
    oscA, oscB, skew,                \* two Sho built alike; skew = (sum of dt given to A) - (to B)
    pulsor, rotator,                 \* the module's two oscillators
    time_step,                       \* the argument of the last computeData call
    frame,                           \* ps, tilt, nod, turn of the last computeData call
    prev,                            \* frame of the call before it
    moved,                           \* whether some computeData call had time_step # 0
    running,                         \* puppetry.isRunning()
    copc, mainpc,                    \* where puppetry_coroutine and the module's wait loop stand
    clock,                           \* time.monotonic() - t0
    delta_time,                      \* puppetry_coroutine's delta_time
    sleepFor,                        \* the argument of the coroutine's last eventlet.sleep
    procTime,                        \* time the last frame took after t1 was read (-1: no frame yet)
    iter,                            \* the calls made so far by the current loop iteration
    sent,                            \* the last data given to sendPuppetryData
    sentAfterStop                    \* number of sendPuppetryData calls made while not running

shoVars == <<frequency, phase, raised, osc>>

pairVars == <<oscA, oscB, skew>>

poseVars == <<pulsor, rotator, time_step, frame, prev, moved>>

loopVars == <<running, copc, mainpc, clock, delta_time, sleepFor, procTime, iter, sent,
              sentAfterStop>>

vars == <<shoVars, pairVars, poseVars, loopVars>>

-----------------------------------------------------------------------------
(* Fixed-point units and program constants *)

TwoPi == 320

FreqOne == 320

SinOne == 1000

pulse_period == 320

oscillation_period == 40

amplitude == 524

update_period == 2

(* Bounds of the model *)

MaxFreq == 8

MaxPhase == 5

MaxDt == 90

MaxPairDt == 20

MaxSkew == 24

MaxStep == 3

MaxJump == 9

MaxLate == 1

MaxProc == 1

Epsilon == 20

-----------------------------------------------------------------------------
(* Python built-ins *)

Abs(x) == IF x < 0 THEN -x ELSE x

\* int(a / b): the quotient truncated toward zero
IntDiv(a, b) == IF (a < 0) = (b < 0) THEN Abs(a) \div Abs(b) ELSE -(Abs(a) \div Abs(b))

\* a mathematician's modulo, result in 0 .. m-1
Mod(a, m) == a % m

\* one quarter wave of the sine, QuarterSine[k+1] = round(SinOne * sin(2*pi*k/TwoPi))
QuarterSine ==
    << 0, 20, 39, 59, 78, 98, 118, 137, 156,
       176, 195, 214, 233, 252, 271, 290, 309, 328,
       346, 364, 383, 401, 419, 436, 454, 471, 489,
       506, 522, 539, 556, 572, 588, 604, 619, 634,
       649, 664, 679, 693, 707, 721, 734, 748, 760,
       773, 785, 797, 809, 820, 831, 842, 853, 863,
       872, 882, 891, 900, 908, 916, 924, 931, 938,
       945, 951, 957, 962, 968, 972, 977, 981, 984,
       988, 991, 993, 995, 997, 998, 999, 1000, 1000 >>

\* math.sin of an angle given in angle units
MathSin(theta) ==
    LET a == Mod(theta, TwoPi)
        q == TwoPi \div 4
    IN  IF a <= q THEN QuarterSine[a + 1]
        ELSE IF a <= 2 * q THEN QuarterSine[2 * q - a + 1]
        ELSE IF a <= 3 * q THEN -QuarterSine[a - 2 * q + 1]
        ELSE -QuarterSine[4 * q - a + 1]

\* math.cos
MathCos(theta) == MathSin(theta + TwoPi \div 4)

-----------------------------------------------------------------------------
(* class Sho *)

\* faulty variant of Rewrap: the test of the negative side forgotten
RewrapOneSided(t, period) ==
    IF t > period THEN t - IntDiv(t, period) * period ELSE t

\* faulty variant of Rewrap: "* self.period" forgotten
RewrapNoFactor(t, period) ==
    IF t > period \/ t < -period THEN t - IntDiv(t, period) ELSE t

\* the wrap of __init__ and of advance:
\*     if self.t > self.period or self.t < -self.period:
\*         self.t -= int(self.t / self.period) * self.period
Rewrap(t, period) ==
    IF t > period \/ t < -period THEN t - IntDiv(t, period) * period ELSE t

\* faulty variant of ShoInit: "frequency = abs(frequency)" forgotten
ShoInitSigned(f0, ph) ==
    LET s1 == [wave_speed |-> (TwoPi * f0) \div FreqOne]
    IN  IF f0 = 0
        THEN [raised |-> "ZeroDivisionError", self |-> s1]
        ELSE LET period == IntDiv(FreqOne, f0)
                 t == IntDiv(ph, s1.wave_speed)
             IN  [raised |-> "none",
                  self |-> [wave_speed |-> s1.wave_speed, period |-> period,
                            t |-> Rewrap(t, period)]]

\* Sho.__init__(self, frequency, phase): the attributes set, and the exception raised
\* (1.0 / frequency raises ZeroDivisionError when frequency is 0, after wave_speed
\* was set and before period and t are).  On the grid of Frequencies and Phases
\* both divisions are exact.
ShoInit(f0, ph) ==
    LET f == Abs(f0)
        s1 == [wave_speed |-> (TwoPi * f) \div FreqOne]
    IN  IF f = 0
        THEN [raised |-> "ZeroDivisionError", self |-> s1]
        ELSE LET period == FreqOne \div f
                 t == ph \div s1.wave_speed
             IN  [raised |-> "none",
                  self |-> [wave_speed |-> s1.wave_speed, period |-> period,
                            t |-> Rewrap(t, period)]]

\* Sho.advance(self, dt): the object afterwards
ShoAdvance(self, dt) == [self EXCEPT !.t = Rewrap(self.t + dt, self.period)]

\* Sho.theta, Sho.sin, Sho.cos
ShoTheta(self) == self.t * self.wave_speed

ShoSin(self) == MathSin(self.t * self.wave_speed)

ShoCos(self) == MathCos(self.t * self.wave_speed)

-----------------------------------------------------------------------------
(* One oscillator: constructed with any frequency and phase of the grid,   *)
(* then advanced by any dt.                                                *)

\* frequencies whose period is a whole number of ticks, zero and negative included
Frequencies == {f \in -MaxFreq..MaxFreq : f = 0 \/ (TwoPi \div 4) % Abs(f) = 0}

\* phases in quarter turns, beyond a full turn on both sides
Phases == {k * (TwoPi \div 4) : k \in -MaxPhase..MaxPhase}

Dts == -MaxDt..MaxDt

PairIdle == oscA = <<>> /\ oscB = <<>> /\ skew = 0

ShoIdle == frequency = 0 /\ phase = 0 /\ raised = "none" /\ osc = <<>>

PoseIdle ==
    /\ pulsor = <<>> /\ rotator = <<>> /\ time_step = 0
    /\ frame = <<>> /\ prev = <<>> /\ moved = FALSE

LoopIdle ==
    /\ running = FALSE /\ copc = "none" /\ mainpc = "none" /\ clock = 0 /\ delta_time = 0
    /\ sleepFor = 0 /\ procTime = -1 /\ iter = <<>> /\ sent = <<>> /\ sentAfterStop = 0

InitSho ==
    /\ frequency \in Frequencies
    /\ phase \in Phases
    /\ raised = ShoInit(frequency, phase).raised
    /\ osc = ShoInit(frequency, phase).self
    /\ PairIdle /\ PoseIdle /\ LoopIdle

Advance(dt) ==
    /\ raised = "none"
    /\ osc' = ShoAdvance(osc, dt)
    /\ UNCHANGED <<frequency, phase, raised, pairVars, poseVars, loopVars>>

NextSho == \E dt \in Dts : Advance(dt)

SpecSho == InitSho /\ [][NextSho]_vars

-----------------------------------------------------------------------------
(* Two oscillators built with the same frequency and phase, each advanced  *)
(* on its own by steps of an eighth of the period.                         *)

PairDts(self) == {d * (self.period \div 8) : d \in -MaxPairDt..MaxPairDt}

InitPair ==
    /\ \E f \in Frequencies \ {0}, ph \in Phases :
          /\ oscA = ShoInit(f, ph).self
          /\ oscB = ShoInit(f, ph).self
    /\ skew = 0
    /\ ShoIdle /\ PoseIdle /\ LoopIdle

AdvanceA(dt) ==
    /\ Abs(skew + dt) <= MaxSkew * (oscA.period \div 8)
    /\ oscA' = ShoAdvance(oscA, dt)
    /\ skew' = skew + dt
    /\ UNCHANGED <<oscB, shoVars, poseVars, loopVars>>

AdvanceB(dt) ==
    /\ Abs(skew - dt) <= MaxSkew * (oscB.period \div 8)
    /\ oscB' = ShoAdvance(oscB, dt)
    /\ skew' = skew - dt
    /\ UNCHANGED <<oscA, shoVars, poseVars, loopVars>>

NextPair ==
    \/ \E dt \in PairDts(oscA) : AdvanceA(dt)
    \/ \E dt \in PairDts(oscB) : AdvanceB(dt)

SpecPair == InitPair /\ [][NextPair]_vars

-----------------------------------------------------------------------------
(* The module's oscillators and computeData *)

\* pulsor = Sho(frequency = 1.0 / pulse_period, phase = 0)
PulsorInit == ShoInit(FreqOne \div pulse_period, 0).self

\* rotator = Sho(frequency = 1.0 / oscillation_period, phase = 0)
RotatorInit == ShoInit(FreqOne \div oscillation_period, 0).self

Max(a, b) == IF a > b THEN a ELSE b

\* faulty variant of ComputeData: the two branches exchanged
ComputeDataSwapped(p, r, dt) ==
    LET p1 == ShoAdvance(p, dt)
        r1 == ShoAdvance(r, dt)
        ps == ShoSin(p1)
    IN  [pulsor |-> p1, rotator |-> r1,
         calls |-> << <<"pulsor.advance", dt>>, <<"rotator.advance", dt>> >>,
         frame |-> IF ps > 0
                   THEN [ps |-> ps, tilt |-> 0, nod |-> 0,
                         turn |-> (amplitude * ps) * ShoSin(r1)]
                   ELSE [ps |-> ps, tilt |-> 0, nod |-> (amplitude * ps) * ShoSin(r1),
                         turn |-> 0]]

\* faulty variant of ComputeData: ps selects the mode but does not scale the angle
ComputeDataNoFade(p, r, dt) ==
    LET p1 == ShoAdvance(p, dt)
        r1 == ShoAdvance(r, dt)
        ps == ShoSin(p1)
    IN  [pulsor |-> p1, rotator |-> r1,
         calls |-> << <<"pulsor.advance", dt>>, <<"rotator.advance", dt>> >>,
         frame |-> IF ps > 0
                   THEN [ps |-> ps, tilt |-> 0, nod |-> (amplitude * SinOne) * ShoSin(r1),
                         turn |-> 0]
                   ELSE [ps |-> ps, tilt |-> 0, nod |-> 0,
                         turn |-> (amplitude * SinOne) * ShoSin(r1)]]

\* faulty variant of ComputeData: the two sines added instead of multiplied
ComputeDataSum(p, r, dt) ==
    LET p1 == ShoAdvance(p, dt)
        r1 == ShoAdvance(r, dt)
        ps == ShoSin(p1)
    IN  [pulsor |-> p1, rotator |-> r1,
         calls |-> << <<"pulsor.advance", dt>>, <<"rotator.advance", dt>> >>,
         frame |-> IF ps > 0
                   THEN [ps |-> ps, tilt |-> 0, nod |-> (amplitude * SinOne) * (ps + ShoSin(r1)),
                         turn |-> 0]
                   ELSE [ps |-> ps, tilt |-> 0, nod |-> 0,
                         turn |-> (amplitude * SinOne) * (ps + ShoSin(r1))]]

\* faulty variant of ComputeData: advances by update_period, not by time_step
ComputeDataFixedStep(p, r, dt) ==
    LET p1 == ShoAdvance(p, update_period)
        r1 == ShoAdvance(r, update_period)
        ps == ShoSin(p1)
    IN  [pulsor |-> p1, rotator |-> r1,
         calls |-> << <<"pulsor.advance", update_period>>,
                      <<"rotator.advance", update_period>> >>,
         frame |-> IF ps > 0
                   THEN [ps |-> ps, tilt |-> 0, nod |-> (amplitude * ps) * ShoSin(r1),
                         turn |-> 0]
                   ELSE [ps |-> ps, tilt |-> 0, nod |-> 0,
                         turn |-> (amplitude * ps) * ShoSin(r1)]]

\* faulty variant of ComputeData: pulsor advanced twice, rotator never
ComputeDataPulsorTwice(p, r, dt) ==
    LET p1 == ShoAdvance(ShoAdvance(p, dt), dt)
        r1 == r
        ps == ShoSin(p1)
    IN  [pulsor |-> p1, rotator |-> r1,
         calls |-> << <<"pulsor.advance", dt>>, <<"pulsor.advance", dt>> >>,
         frame |-> IF ps > 0
                   THEN [ps |-> ps, tilt |-> 0, nod |-> (amplitude * ps) * ShoSin(r1),
                         turn |-> 0]
                   ELSE [ps |-> ps, tilt |-> 0, nod |-> 0,
                         turn |-> (amplitude * ps) * ShoSin(r1)]]

\* computeData(time_step): the oscillators afterwards, the calls made on them, and
\* the angles handed to packedQuaternionFromEulerAngles (with ps, the mode selector).
\* nod and turn are products of three fixed-point numbers, kept unrounded.
ComputeData(p, r, dt) ==
    LET p1 == ShoAdvance(p, dt)
        r1 == ShoAdvance(r, dt)
        ps == ShoSin(p1)
    IN  [pulsor |-> p1, rotator |-> r1,
         calls |-> << <<"pulsor.advance", dt>>, <<"rotator.advance", dt>> >>,
         frame |-> IF ps > 0
                   THEN [ps |-> ps, tilt |-> 0, nod |-> (amplitude * ps) * ShoSin(r1),
                         turn |-> 0]
                   ELSE [ps |-> ps, tilt |-> 0, nod |-> 0,
                         turn |-> (amplitude * ps) * ShoSin(r1)]]

-----------------------------------------------------------------------------
(* The pose generator on its own: computeData called with any time_step,   *)
(* small or large, positive, zero or negative.                             *)

PoseDts == (-MaxStep..MaxStep) \cup {k * oscillation_period : k \in -MaxJump..MaxJump}

InitPose ==
    /\ pulsor = PulsorInit
    /\ rotator = RotatorInit
    /\ time_step = 0
    /\ frame = <<>>
    /\ prev = <<>>
    /\ moved = FALSE
    /\ ShoIdle /\ PairIdle /\ LoopIdle

Frame(dt) ==
    LET c == ComputeData(pulsor, rotator, dt)
    IN  /\ pulsor' = c.pulsor
        /\ rotator' = c.rotator
        /\ time_step' = dt
        /\ frame' = c.frame
        /\ prev' = frame
        /\ moved' = (moved \/ dt # 0)
        /\ UNCHANGED <<shoVars, pairVars, loopVars>>

NextPose == \E dt \in PoseDts : Frame(dt)

SpecPose == InitPose /\ [][NextPose]_vars

-----------------------------------------------------------------------------
(* The script: puppetry_coroutine and the wait loop at the end of the      *)
(* module, from the moment eventlet.spawn has returned.  Time passes while *)
(* the coroutine sleeps (the sleep asked for, plus 0..MaxLate of lateness) *)
(* and while it works on a frame (0..MaxProc).                             *)

InitLoop ==
    /\ pulsor = PulsorInit
    /\ rotator = RotatorInit
    /\ time_step = 0
    /\ frame = <<>>
    /\ prev = <<>>
    /\ moved = FALSE
    /\ running = TRUE
    /\ copc = "spawned"
    /\ mainpc = "while"
    /\ clock = 0
    /\ delta_time = 0
    /\ sleepFor = 0
    /\ procTime = -1
    /\ iter = <<>>
    /\ sent = <<>>
    /\ sentAfterStop = 0
    /\ ShoIdle /\ PairIdle

\* t0 = time.monotonic(); delta_time = update_period
CoStart ==
    /\ copc = "spawned"
    /\ copc' = "while"
    /\ clock' = 0
    /\ delta_time' = update_period
    /\ UNCHANGED <<shoVars, pairVars, poseVars, running, mainpc, sleepFor, procTime, iter,
                   sent, sentAfterStop>>

\* faulty variant of CoCheck: "while True"
CoCheckIgnoresFlag ==
    /\ copc = "while"
    /\ copc' = "sleep"
    /\ sleepFor' = Max(0, 2 * update_period - delta_time)
    /\ iter' = << <<"isRunning", 0>>, <<"sleep", sleepFor'>> >>
    /\ UNCHANGED <<shoVars, pairVars, poseVars, running, mainpc, clock, delta_time, procTime,
                   sent, sentAfterStop>>

\* while puppetry.isRunning(): eventlet.sleep(max(0.0, 2 * update_period - delta_time))
CoCheck ==
    /\ copc = "while"
    /\ IF running
       THEN /\ copc' = "sleep"
            /\ sleepFor' = Max(0, 2 * update_period - delta_time)
            /\ iter' = << <<"isRunning", 0>>, <<"sleep", sleepFor'>> >>
       ELSE /\ copc' = "done"
            /\ iter' = << <<"isRunning", 0>> >>
            /\ UNCHANGED sleepFor
    /\ UNCHANGED <<shoVars, pairVars, poseVars, running, mainpc, clock, delta_time, procTime,
                   sent, sentAfterStop>>

\* the sleep returns; t1 = time.monotonic(); delta_time = t1 - t0; t0 = t1;
\* data = computeData(delta_time)
CoWake(late) ==
    /\ copc = "sleep"
    /\ copc' = "send"
    /\ delta_time' = clock + sleepFor + late
    /\ clock' = 0
    /\ LET c == ComputeData(pulsor, rotator, delta_time')
       IN  /\ pulsor' = c.pulsor
           /\ rotator' = c.rotator
           /\ time_step' = delta_time'
           /\ frame' = c.frame
           /\ prev' = frame
           /\ moved' = (moved \/ delta_time' # 0)
           /\ iter' = iter \o c.calls
    /\ UNCHANGED <<shoVars, pairVars, running, mainpc, sleepFor, procTime, sent,
                   sentAfterStop>>

\* puppetry.sendPuppetryData(data); the frame took p ticks since t1 was read
CoSend(p) ==
    /\ copc = "send"
    /\ copc' = "while"
    /\ sent' = [tilt |-> frame.tilt, nod |-> frame.nod, turn |-> frame.turn]
    /\ sentAfterStop' = IF running THEN sentAfterStop ELSE sentAfterStop + 1
    /\ iter' = Append(iter, <<"sendPuppetryData", 0>>)
    /\ clock' = clock + p
    /\ procTime' = p
    /\ UNCHANGED <<shoVars, pairVars, poseVars, running, mainpc, delta_time, sleepFor>>

\* while puppetry.isRunning(): eventlet.sleep(0.2)
MainCheck ==
    /\ mainpc = "while"
    /\ mainpc' = IF running THEN "sleep" ELSE "done"
    /\ UNCHANGED <<shoVars, pairVars, poseVars, running, copc, clock, delta_time, sleepFor,
                   procTime, iter, sent, sentAfterStop>>

MainWake ==
    /\ mainpc = "sleep"
    /\ mainpc' = "while"
    /\ UNCHANGED <<shoVars, pairVars, poseVars, running, copc, clock, delta_time, sleepFor,
                   procTime, iter, sent, sentAfterStop>>

\* the session ends: puppetry.isRunning() is false from now on
Stop ==
    /\ running
    /\ running' = FALSE
    /\ UNCHANGED <<shoVars, pairVars, poseVars, copc, mainpc, clock, delta_time, sleepFor,
                   procTime, iter, sent, sentAfterStop>>

CoStep ==
    \/ CoStart
    \/ CoCheck
    \/ \E late \in 0..MaxLate : CoWake(late)
    \/ \E p \in 0..MaxProc : CoSend(p)

MainStep == MainCheck \/ MainWake

Next == CoStep \/ MainStep \/ Stop

Spec == InitLoop /\ [][Next]_vars

\* every sleep returns and every greenthread that can run does
FairSpec == Spec /\ WF_vars(CoStep) /\ WF_vars(MainStep)

-----------------------------------------------------------------------------
(* The script with the timing C8 speaks of: every sleep returns exactly on *)
(* time and every frame takes the same processing time.                    *)

NextPaced ==
    \/ CoStart
    \/ CoCheck
    \/ CoWake(0)
    \/ \E p \in 0..MaxProc : (procTime = -1 \/ procTime = p) /\ CoSend(p)
    \/ MainStep
    \/ Stop

SpecPaced == InitLoop /\ [][NextPaced]_vars

-----------------------------------------------------------------------------
C2_PhaseWrapInvariance ==
    oscA # <<>> /\ skew = 0 =>
        /\ Mod(oscA.t, oscA.period) = Mod(oscB.t, oscB.period)
        /\ ShoSin(oscA) = ShoSin(oscB)
        /\ ShoCos(oscA) = ShoCos(oscB)
        /\ Mod(ShoTheta(oscA), TwoPi) = Mod(ShoTheta(oscB), TwoPi)

\* same total, different splits, different wraps: the accumulators differ
C2_Witness ==
    oscA # <<>> /\ skew = 0 /\ oscA.t < 0 /\ oscB.t > 0

(* C9: a frequency of exactly zero fails in the constructor with a          *)
(* ZeroDivisionError before period and t are set; a negative frequency does *)
(* not fail and gives the wave_speed (>= 0) and period of its absolute      *)
(* value.                                                                   *)
C9_ZeroFrequencyFails ==
    /\ frequency = 0 =>
          /\ raised = "ZeroDivisionError"
          /\ "t" \notin DOMAIN osc
          /\ "period" \notin DOMAIN osc
    /\ frequency # 0 =>
          /\ raised = "none"
          /\ DOMAIN osc = {"wave_speed", "period", "t"}
          /\ osc.wave_speed >= 0
          /\ osc.period > 0
          /\ osc.wave_speed * FreqOne = TwoPi * Abs(frequency)
          /\ osc.period * Abs(frequency) = FreqOne

C9_Witness ==
    frequency = 0 /\ raised = "ZeroDivisionError" /\ DOMAIN osc = {"wave_speed"}

(* C3: with ps = pulsor.sin() read after both oscillators were advanced:    *)
(* if ps > 0 then turn = 0 and nod = amplitude*ps*rotator.sin(), otherwise  *)
(* (ps = 0 included) nod = 0 and turn = amplitude*ps*rotator.sin(); tilt is *)
(* 0 in every frame; nod and turn are never both non-zero.                  *)
C3_ModeSwitch ==
    frame # <<>> =>
        LET ps == ShoSin(pulsor)
            rs == ShoSin(rotator)
        IN  /\ frame.ps = ps
            /\ frame.tilt = 0
            /\ ps > 0 => frame.turn = 0 /\ frame.nod = amplitude * ps * rs
            /\ ps <= 0 => frame.nod = 0 /\ frame.turn = amplitude * ps * rs
            /\ frame.nod = 0 \/ frame.turn = 0

\* both modes seen in consecutive frames, each with a non-zero angle
C3_Witness ==
    /\ frame # <<>> /\ prev # <<>>
    /\ prev.ps > 0 /\ prev.nod # 0
    /\ frame.ps < 0 /\ frame.turn # 0

(* C4: in every frame |nod| and |turn| are at most amplitude*|ps|; so when  *)
(* |ps| <= Epsilon both are within amplitude*Epsilon of 0, in particular in *)
(* the two frames that bracket a zero-crossing of pulsor.sin().             *)
C4_ModeContinuity ==
    frame # <<>> =>
        /\ Abs(frame.nod) <= amplitude * Abs(frame.ps) * SinOne
        /\ Abs(frame.turn) <= amplitude * Abs(frame.ps) * SinOne
        /\ Abs(frame.ps) <= Epsilon =>
              /\ Abs(frame.nod) <= amplitude * Epsilon * SinOne
              /\ Abs(frame.turn) <= amplitude * Epsilon * SinOne
        /\ (prev # <<>> /\ Abs(prev.ps) <= Epsilon /\ Abs(frame.ps) <= Epsilon) =>
              /\ Abs(frame.nod - prev.nod) <= 2 * amplitude * Epsilon * SinOne
              /\ Abs(frame.turn - prev.turn) <= 2 * amplitude * Epsilon * SinOne

\* the last frame with ps > 0 and the first with ps <= 0, both near the crossing
C4_Witness ==
    /\ frame # <<>> /\ prev # <<>>
    /\ prev.ps > 0 /\ prev.ps <= Epsilon /\ prev.nod # 0
    /\ frame.ps < 0 /\ -frame.ps <= Epsilon /\ frame.turn # 0

(* C5: after any sequence of computeData calls, |nod| <= amplitude and      *)
(* |turn| <= amplitude in every frame.                                      *)
C5_AmplitudeBound ==
    frame # <<>> =>
        /\ Abs(frame.nod) <= amplitude * SinOne * SinOne
        /\ Abs(frame.turn) <= amplitude * SinOne * SinOne

\* a frame near full swing, reached after a negative time step
C5_Witness ==
    /\ frame # <<>>
    /\ time_step < 0
    /\ Abs(frame.turn) > ((amplitude * SinOne) \div 10) * 9 * SinOne

(* C6: computeData(0) leaves the t of both oscillators unchanged and emits  *)
(* what an immediately following computeData(0) emits; from the freshly     *)
(* constructed oscillators every such call emits tilt = nod = turn = 0.     *)
C6_ZeroStep ==
    /\ [][Frame(0) =>
            /\ pulsor' = pulsor
            /\ rotator' = rotator
            /\ frame' = ComputeData(pulsor', rotator', 0).frame]_vars
    /\ [](frame # <<>> /\ ~moved =>
            /\ pulsor.t = 0 /\ rotator.t = 0
            /\ frame.tilt = 0 /\ frame.nod = 0 /\ frame.turn = 0)

\* a zero step taken in mid-swing, with the accumulator of the pulsor on its boundary
C6_Witness ==
    /\ frame # <<>> /\ moved /\ time_step = 0
    /\ pulsor.t = pulsor.period

(* C7: the frame loop tests isRunning() once at the start of every          *)
(* iteration; an iteration whose test saw false computes and sends nothing; *)
(* once isRunning() is false both loops eventually exit.                    *)
C7_CooperativeCancellation ==
    /\ [][(copc = "while" /\ copc' # copc) =>
            /\ iter' [1] = <<"isRunning", 0>>
            /\ copc' = (IF running THEN "sleep" ELSE "done")
            /\ UNCHANGED <<pulsor, rotator, frame, sent, sentAfterStop>>]_vars
    /\ [][copc = "done" =>
            /\ copc' = "done"
            /\ UNCHANGED <<pulsor, rotator, frame, sent, sentAfterStop, iter>>]_vars
    /\ [][~running => ~running']_vars
    /\ (~running ~> (copc = "done" /\ mainpc = "done"))

\* both loops have left after at least one frame was sent
C7_Witness ==
    ~running /\ copc = "done" /\ mainpc = "done" /\ sent # <<>>

(* C8 (as stated): the sleep before each frame is update_period less the    *)
(* processing time of the previous frame, never negative, so with a         *)
(* constant processing time below update_period the dt given to computeData *)
(* stays at update_period.                                                  *)
C8_FramePacing ==
    /\ sleepFor >= 0
    /\ (copc = "sleep" /\ procTime >= 0) => sleepFor = Max(0, update_period - procTime)
    /\ (frame # <<>> /\ procTime < update_period) => time_step = update_period

(* C10: every iteration of the frame loop makes, in this order, one         *)
(* isRunning() test, one sleep, one advance of pulsor and one of rotator by *)
(* the same dt, and one sendPuppetryData; at most one pose update is sent   *)
(* after isRunning() became false; the wait loop touches neither the        *)
(* oscillators nor the transport.                                           *)
IterationCalls ==
    << <<"isRunning", 0>>, <<"sleep", sleepFor>>, <<"pulsor.advance", delta_time>>,
       <<"rotator.advance", delta_time>>, <<"sendPuppetryData", 0>> >>

C10_IterationShape ==
    /\ [](/\ copc = "spawned" => iter = <<>>
          /\ copc = "sleep" => iter = SubSeq(IterationCalls, 1, 2)
          /\ copc = "send" => iter = SubSeq(IterationCalls, 1, 4) /\ time_step = delta_time
          /\ copc = "while" => iter = <<>> \/ iter = IterationCalls
          /\ copc = "done" => iter = SubSeq(IterationCalls, 1, 1)
          /\ sentAfterStop <= 1)
    /\ [][CoWake(delta_time') =>
            /\ pulsor' = ShoAdvance(pulsor, delta_time')
            /\ rotator' = ShoAdvance(rotator, delta_time')]_vars
    /\ [][MainStep => UNCHANGED <<pulsor, rotator, frame, sent, iter, sentAfterStop>>]_vars

\* the one pose update that may follow the end of the session
C10_Witness ==
    copc = "done" /\ sentAfterStop = 1

=============================================================================
